---- MODULE Spec2Model ----
(***************************************************************************)
(* Model of the defined_client transport core: DefinedClient._request,     *)
(* DefinedClient._handle_response, the exception hierarchy, the session    *)
(* lifecycle (close, __enter__, __exit__) and the resource facades of      *)
(* resources.py (hosts, roles, routes, tags, networks, audit logs,         *)
(* downloads).                                                             *)
(***************************************************************************)
EXTENDS Integers, Sequences, FiniteSets, TLC

VARIABLES
    ctor,            \* history: the arguments the constructor was given
    api_key,         \* self.api_key
    headers,         \* self.session.headers, the session's default headers
    base_url,        \* self.base_url, fixed at construction
    pooled,          \* the requests.Session holds a pooled connection
    closed,          \* history: DefinedClient.close() has been called
    afterClose,      \* the last operation was a request made after close()
    withPc,          \* position of a caller using the client in a with-block
    propagated,      \* the exception that left the with-block, if any
    op,              \* the last operation a caller invoked
    args,            \* the arguments of the last operation
    sent,            \* the requests the last operation had transmitted
    wire,            \* the last request handed to session.request
    received,        \* what session.request produced for the last call
    outcome,         \* what the last operation returned or raised
    threads          \* each calling thread: its position in a call, the call,
                     \* the mappings it passed, and its request in flight

vars == <<ctor, api_key, headers, base_url, pooled, closed, afterClose,
          withPc, propagated, op, args, sent, wire, received, outcome,
          threads>>

-----------------------------------------------------------------------------
(* Bounds *)

\* longest errors array a response body carries
MaxErrors == 2

\* most slashes at the end of a base URL and at the start of a path
MaxSlashes == 2

\* threads of the caller that share one client
MaxThreads == 2

-----------------------------------------------------------------------------
(* Python values.  A leaf is None, a list, a str, an int, a bool or a dict   *)
(* (opaque, named by s, or with its entries spelled out); a value is a leaf *)
(* or a dict whose "errors" and "data" members are leaves.                  *)

\* the entries of a dict that has none spelled out
NoEntries == <<>>

Leaf(py, items, s) ==
    [py |-> py, items |-> items, s |-> s, entries |-> NoEntries]
NoneLeaf == Leaf("None", <<>>, "")
ListLeaf(items) == Leaf("list", items, "")
StrLeaf(s) == Leaf("str", <<>>, s)
DictLeaf(s) == Leaf("dict", <<>>, s)
EmptyList == ListLeaf(<<>>)
EmptyDictLeaf == DictLeaf("")
IntLeaf(s) == Leaf("int", <<>>, s)
BoolLeaf(s) == Leaf("bool", <<>>, s)
\* a dict given by its entries, a function from keys to leaves
DictOf(entries) ==
    [py |-> "dict", items |-> <<>>, s |-> "", entries |-> entries]
\* d[key] = val on the entries of a dict
Put(entries, key, val) ==
    [k \in DOMAIN entries \cup {key} |->
         IF k = key THEN val ELSE entries[k]]

Value(py, items, s, keys, errors, data) ==
    [py |-> py, items |-> items, s |-> s, keys |-> keys,
     errors |-> errors, data |-> data]
Lift(leaf) == Value(leaf.py, leaf.items, leaf.s, {}, NoneLeaf, NoneLeaf)
NoneValue == Lift(NoneLeaf)
EmptyDict == Lift(EmptyDictLeaf)

\* Python truthiness of a leaf: None, [], "", {}, 0 and False are falsy
Truthy(leaf) ==
    CASE leaf.py = "None" -> FALSE
      [] leaf.py = "list" -> leaf.items # <<>>
      [] leaf.py = "str"  -> leaf.s # ""
      [] leaf.py = "dict" -> leaf.s # "" \/ leaf.entries # NoEntries
      [] leaf.py = "int"  -> leaf.s # "0"
      [] leaf.py = "bool" -> leaf.s = "True"

-----------------------------------------------------------------------------
(* Response bodies as they arrive on the wire *)

\* {path, message, code}-shaped entries of an errors array
ErrorEntries == {"e1", "e2"}

RECURSIVE SeqsUpTo(_, _)
SeqsUpTo(S, n) ==
    IF n = 0 THEN {<<>>}
    ELSE LET shorter == SeqsUpTo(S, n - 1)
         IN  shorter \cup {Append(q, e) : q \in shorter, e \in S}

ErrorArrays == SeqsUpTo(ErrorEntries, MaxErrors)

Doc(form, items, s, members, errors, data) ==
    [form |-> form, items |-> items, s |-> s, members |-> members,
     errors |-> errors, data |-> data]
JsonLeaf(form, items, s) == [form |-> form, items |-> items, s |-> s]
JsonNull == JsonLeaf("null", <<>>, "")

EmptyContent == Doc("empty", <<>>, "", {}, JsonNull, JsonNull)
TextContent  == Doc("text", <<>>, "<html>", {}, JsonNull, JsonNull)
NullDoc      == Doc("null", <<>>, "", {}, JsonNull, JsonNull)
StringDoc    == Doc("string", <<>>, "oops", {}, JsonNull, JsonNull)
ArrayDoc     == Doc("array", <<"e1">>, "", {}, JsonNull, JsonNull)
ObjectDoc(members, errors, data) ==
    Doc("object", <<>>, "", members, errors, data)

Contents ==
    {EmptyContent, TextContent, NullDoc, StringDoc, ArrayDoc}
    \cup {ObjectDoc({}, JsonNull, JsonNull)}
    \cup {ObjectDoc({"data"}, JsonNull, JsonLeaf("object", <<>>, "host-1"))}
    \cup {ObjectDoc({"errors"}, JsonLeaf("array", a, ""), JsonNull) :
              a \in ErrorArrays}
    \cup {ObjectDoc({"errors"}, JsonLeaf("string", <<>>, "bad"), JsonNull)}

Statuses == {200, 201, 204, 304, 400, 401, 403, 404, 409, 500, 599}

Response(status, content) == [status |-> status, content |-> content]
Responses == {Response(s, c) : s \in Statuses, c \in Contents}
\* response=None of an exception raised without a response
NoResponse == Response(0, EmptyContent)

\* variant: success tested as status == 200
OkOnly200(response) == response.status = 200

\* requests.Response.ok: raise_for_status() raises only for 400..599
Ok(response) == ~(400 <= response.status /\ response.status < 600)

\* A JSON leaf as the Python object json.loads builds from it
LoadLeaf(j) ==
    CASE j.form = "null"   -> NoneLeaf
      [] j.form = "string" -> StrLeaf(j.s)
      [] j.form = "array"  -> ListLeaf(j.items)
      [] j.form = "object" -> DictLeaf(j.s)

\* response.json(): the parsed value, or ValueError for a body that is no JSON
ResponseJson(response) ==
    LET c == response.content IN
    CASE c.form \in {"empty", "text"} ->
             [ok |-> FALSE, value |-> NoneValue]
      [] c.form = "object" ->
             [ok |-> TRUE,
              value |-> Value("dict", <<>>, "", c.members,
                              IF "errors" \in c.members
                                  THEN LoadLeaf(c.errors) ELSE NoneLeaf,
                              IF "data" \in c.members
                                  THEN LoadLeaf(c.data) ELSE NoneLeaf)]
      [] OTHER ->
             [ok |-> TRUE,
              value |-> Lift(LoadLeaf(JsonLeaf(c.form, c.items, c.s)))]

\* value.get(key, default): AttributeError unless value is a dict
DictGet(value, key, default) ==
    IF value.py # "dict"
        THEN [ok |-> FALSE, value |-> default]
    ELSE IF key \in value.keys
        THEN [ok |-> TRUE,
              value |-> IF key = "errors" THEN value.errors ELSE value.data]
    ELSE [ok |-> TRUE, value |-> default]

-----------------------------------------------------------------------------
(* Exceptions *)

\* status_code=None
NoStatus == -1

ClientErrorClasses ==
    {"DefinedClientError", "ValidationError", "AuthenticationError",
     "PermissionDeniedError", "NotFoundError", "ServerError"}

Exc(cls, message, status_code, errors, response) ==
    [cls |-> cls, message |-> message, status_code |-> status_code,
     errors |-> errors, response |-> response]
NoExc == Exc("", "", NoStatus, NoneLeaf, NoResponse)

\* variant: the constructor does not keep the errors it is given
DefinedClientErrorDropsErrors(cls, message, status_code, errors, response) ==
    Exc(cls, message, status_code, EmptyList, response)

\* DefinedClientError.__init__, shared by every subclass
DefinedClientError(cls, message, status_code, errors, response) ==
    Exc(cls, message, status_code,
        IF Truthy(errors) THEN errors ELSE EmptyList, response)

\* exceptions of classes outside the client's hierarchy: a call with a
\* keyword argument the signature does not have, and .get on a non-dict
TypeError == Exc("TypeError", "unexpected keyword argument", NoStatus,
                 NoneLeaf, NoResponse)
AttributeError == Exc("AttributeError", "no attribute 'get'", NoStatus,
                      NoneLeaf, NoResponse)

Returned(value) == [kind |-> "return", value |-> value, exc |-> NoExc]
Raised(exc) == [kind |-> "raise", value |-> NoneValue, exc |-> exc]
NoOutcome == [kind |-> "none", value |-> NoneValue, exc |-> NoExc]

Digit(d) ==
    CASE d = 0 -> "0" [] d = 1 -> "1" [] d = 2 -> "2" [] d = 3 -> "3"
      [] d = 4 -> "4" [] d = 5 -> "5" [] d = 6 -> "6" [] d = 7 -> "7"
      [] d = 8 -> "8" [] d = 9 -> "9"
\* str() of a three-digit status
Str(n) == Digit(n \div 100) \o Digit((n \div 10) % 10) \o Digit(n % 10)

-----------------------------------------------------------------------------
(* DefinedClient._handle_response *)

\* variant: only status 204 is taken to carry no content
NoContentOnly204(response) == response.status = 204

\* a successful response that carries nothing to parse
NoContent(response) ==
    response.status = 204 \/ response.content.form = "empty"

_handle_response(response) ==
    LET parsed == ResponseJson(response)
        status == response.status
    IN
    IF Ok(response) THEN
        IF NoContent(response)
            THEN Returned(EmptyDict)
        ELSE IF parsed.ok
            THEN Returned(parsed.value)
        ELSE Raised(DefinedClientError("DefinedClientError",
                 "Invalid JSON response", status, NoneLeaf, response))
    ELSE
        LET payload == IF parsed.ok THEN parsed.value ELSE EmptyDict
            got == DictGet(payload, "errors", NoneLeaf)
            errors == got.value
        IN
        IF ~got.ok THEN Raised(AttributeError)
        ELSE IF status = 400 THEN
            Raised(DefinedClientError("ValidationError",
                "Validation error", status, errors, response))
        ELSE IF status = 401 THEN
            Raised(DefinedClientError("AuthenticationError",
                "Authentication failed", status, NoneLeaf, response))
        ELSE IF status = 403 THEN
            Raised(DefinedClientError("PermissionDeniedError",
                "Permission denied", status, NoneLeaf, response))
        ELSE IF status = 404 THEN
            Raised(DefinedClientError("NotFoundError",
                "Resource not found", status, NoneLeaf, response))
        ELSE IF 500 <= status /\ status < 600 THEN
            Raised(DefinedClientError("ServerError",
                "Server error", status, NoneLeaf, response))
        ELSE
            Raised(DefinedClientError("DefinedClientError",
                "Unexpected API error (" \o Str(status) \o ")",
                status, NoneLeaf, response))

-----------------------------------------------------------------------------
(* DefinedClient.__init__ and DefinedClient._request *)

\* URLs are sequences of tokens: "/" or a chunk that has no slash at its ends
BASE_URL == <<"https://api.defined.net">>

\* base_url arguments of the constructor; <<>> is None or the empty string
BaseUrlArgs == {<<>>, <<"https://example.test", "/">>}

\* self.base_url = base_url or self.BASE_URL
InitBaseUrl(arg) == IF arg # <<>> THEN arg ELSE BASE_URL

\* api_key arguments of the constructor
ApiKeys == {"dnkey-A", "dnkey-B"}
CtorArgs == [api_key : ApiKeys, base_url : BaseUrlArgs]

\* the package version the User-Agent header names
Version == "0.0.0"

\* variant: the key is sent without the Bearer scheme
InitHeadersBareKey(key) ==
    ("Authorization" :> key)
    @@ ("Content-Type" :> "application/json")
    @@ ("Accept" :> "application/json")
    @@ ("User-Agent" :> ("defined-client-python/" \o Version))

\* self.session.headers.update({...}) in the constructor
InitHeaders(key) ==
    ("Authorization" :> ("Bearer " \o key))
    @@ ("Content-Type" :> "application/json")
    @@ ("Accept" :> "application/json")
    @@ ("User-Agent" :> ("defined-client-python/" \o Version))

Endpoints == {<<"/", "v1", "/", "hosts">>, <<"v1", "/", "hosts">>}

\* variant: one trailing slash is removed, not all of them
RStripOnce(u) ==
    IF u # <<>> /\ u[Len(u)] = "/" THEN SubSeq(u, 1, Len(u) - 1) ELSE u

\* str.rstrip("/") and str.lstrip("/")
RECURSIVE RStrip(_)
RStrip(u) ==
    IF u # <<>> /\ u[Len(u)] = "/" THEN RStrip(SubSeq(u, 1, Len(u) - 1)) ELSE u

RECURSIVE LStrip(_)
LStrip(u) == IF u # <<>> /\ Head(u) = "/" THEN LStrip(Tail(u)) ELSE u

\* what session.request produces: a response, or a RequestException
Answered(response) == [failed |-> FALSE, response |-> response]
RequestException == [failed |-> TRUE, response |-> NoResponse]
Exchanges == {Answered(r) : r \in Responses} \cup {RequestException}
NoExchange == [failed |-> FALSE, response |-> NoResponse]

\* query parameters and JSON bodies a caller passes
ParamArgs == {NoneLeaf, DictLeaf("pageSize=5")}
JsonArgs == {NoneLeaf, DictLeaf("name=Admin")}

Wire(method, url, params, json) ==
    [method |-> method, url |-> url, params |-> params, json |-> json]
NoWire == Wire("", <<>>, NoneLeaf, NoneLeaf)

\* variant: the body is handed on as the caller gave it, None included
BuildRequestKeepsNone(base, method, endpoint, params, json) ==
    Wire(method, RStrip(base) \o <<"/">> \o LStrip(endpoint), params, json)

\* the request _request hands to session.request
BuildRequest(base, method, endpoint, params, json) ==
    Wire(method,
         RStrip(base) \o <<"/">> \o LStrip(endpoint),
         params,
         IF method \in {"POST", "PUT", "PATCH"} /\ json = NoneLeaf
             THEN EmptyDictLeaf ELSE json)

\* session.request prepares the request with the session's default headers
Prepare(hdrs, request, timeout) ==
    [method |-> request.method, url |-> request.url, headers |-> hdrs,
     params |-> request.params, json |-> request.json, timeout |-> timeout]

\* timeout: int = 30, and the timeout a call runs with: the one its caller
\* gave (a sequence of one value, empty when none was given) or the default
DefaultTimeout == IntLeaf("30")
TimeoutOf(given) == IF given = <<>> THEN DefaultTimeout ELSE given[1]
TimeoutArgs == {<<>>, <<IntLeaf("5")>>}

\* variant: a request that failed or drew an error status is sent again
TransmissionsRetry(requests, exchange) ==
    IF exchange.failed \/ ~Ok(exchange.response)
        THEN requests \o requests ELSE requests

\* the requests _request transmits for the requests an operation makes:
\* each one once, whatever the exchange brings
Transmissions(requests, exchange) == requests

\* the arguments of an operation: the path identifier a facade method was
\* given, the optional arguments its caller supplied, the value of every
\* named argument, and what reached get/post/put/delete
Args(id, supplied, given, endpoint, params, json) ==
    [id |-> id, supplied |-> supplied, given |-> given,
     endpoint |-> endpoint, params |-> params, json |-> json]
NoArgs == Args(<<>>, {}, NoEntries, <<>>, NoneLeaf, NoneLeaf)
\* the arguments of get, post, put, delete and _request
ClientArgs(timeout, endpoint, params, json) ==
    Args(<<>>, IF timeout = <<>> THEN {} ELSE {"timeout"},
         "timeout" :> TimeoutOf(timeout), endpoint, params, json)

\* variant: a client that was closed once refuses the call
_request_refused_after_close(exchange) ==
    IF exchange.failed \/ closed
        THEN Raised(DefinedClientError("DefinedClientError", "Network error",
                                       NoStatus, NoneLeaf, NoResponse))
        ELSE _handle_response(exchange.response)

\* the result of _request for what session.request produced
_request(exchange) ==
    IF exchange.failed
        THEN Raised(DefinedClientError("DefinedClientError", "Network error",
                                       NoStatus, NoneLeaf, NoResponse))
        ELSE _handle_response(exchange.response)

\* Hosts.get: response.get("data", {}) on the value client.get returned
HostsGetResult(result) ==
    IF result.kind # "return" THEN result
    ELSE LET got == DictGet(result.value, "data", EmptyDictLeaf)
         IN  IF got.ok THEN Returned(Lift(got.value))
             ELSE Raised(AttributeError)

-----------------------------------------------------------------------------
(* Resource facades: arguments *)

\* the values drawn for an argument: one that is set and one that is empty
SampleValue(p) ==
    CASE p \in {"static_addresses", "tags", "config_overrides",
                "firewall_rules", "route_subscriptions"}
             -> ListLeaf(<<"item">>)
      [] p \in {"listen_port", "page_size"} -> IntLeaf("7")
      [] p \in {"is_lighthouse", "is_relay", "include_counts",
                "filter_is_blocked", "filter_is_lighthouse",
                "filter_is_relay", "filter_metadata_update_available"}
             -> BoolLeaf("True")
      [] p = "routable_cidrs" -> DictLeaf("cidrs")
      [] p = "kwargs" -> DictLeaf("durationSeconds=5")
      [] p = "timeout" -> IntLeaf("5")
      [] p = "lighthouses_as_relays" -> BoolLeaf("True")
      [] OTHER -> StrLeaf(p)

EmptyValue(p) ==
    CASE SampleValue(p).py = "list" -> EmptyList
      [] SampleValue(p).py = "int"  -> IntLeaf("0")
      [] SampleValue(p).py = "bool" -> BoolLeaf("False")
      [] SampleValue(p).py = "dict" -> EmptyDictLeaf
      [] OTHER -> StrLeaf("")

\* which optional arguments a caller supplies, and whether with set or with
\* empty values: none, each one alone, or all of them
Choices(optional) ==
    {[set |-> {}, mode |-> "value"]}
    \cup {[set |-> S, mode |-> m] :
              S \in {{p} : p \in optional} \cup {optional},
              m \in {"value", "empty"}}

\* the value of every named argument inside the method: required ones are
\* given, optional ones are the caller's or the signature's default
Given(required, defaults, c) ==
    [p \in required \cup DOMAIN defaults |->
         IF p \in required THEN SampleValue(p)
         ELSE IF p \in c.set
             THEN IF c.mode = "value" THEN SampleValue(p) ELSE EmptyValue(p)
         ELSE defaults[p]]

\* a call that supplies no optional argument
NoChoice == [set |-> {}, mode |-> "value"]

\* signature defaults: =None for each of names
Nones(names) == [p \in names |-> NoneLeaf]

\* body[key] = a[param] for each <<param, key>> whose argument is truthy
RECURSIVE AddTruthy(_, _, _)
AddTruthy(body, a, pairs) ==
    IF pairs = <<>> THEN body
    ELSE AddTruthy(IF Truthy(a[Head(pairs)[1]])
                       THEN Put(body, Head(pairs)[2], a[Head(pairs)[1]])
                       ELSE body,
                   a, Tail(pairs))

\* body[key] = a[param] for each <<param, key>> whose argument is not None
RECURSIVE AddNotNone(_, _, _)
AddNotNone(body, a, pairs) ==
    IF pairs = <<>> THEN body
    ELSE AddNotNone(IF a[Head(pairs)[1]] # NoneLeaf
                        THEN Put(body, Head(pairs)[2], a[Head(pairs)[1]])
                        ELSE body,
                    a, Tail(pairs))

\* variant: the keyword arguments, None or not
_build_params_keeps_none(a, pairs) ==
    DictOf([k \in {pairs[i][2] : i \in 1..Len(pairs)} |->
                a[pairs[CHOOSE i \in 1..Len(pairs) : pairs[i][2] = k][1]]])

\* variant: the keyword arguments that are truthy
_build_params_drops_falsy(a, pairs) == DictOf(AddTruthy(NoEntries, a, pairs))

\* BaseResource._build_params: the keyword arguments that are not None
_build_params(a, pairs) == DictOf(AddNotNone(NoEntries, a, pairs))

\* a call a facade method makes on the client
ClientCall_(method, endpoint, params, json) ==
    [method |-> method, endpoint |-> endpoint, params |-> params,
     json |-> json]

\* variant: the response is returned whole
DataIsWholeResponse(result) == result

\* response.get("data", {}) of the single-resource methods
Data(result) == HostsGetResult(result)

\* identifiers interpolated into paths, as token sequences
Ids == {<<"id-1">>}
TagNames == {<<"env", ":", "prod">>, <<"a", "/", "b">>}

V1(resource) == <<"/", "v1", "/", resource>>
\* variant: the newer endpoints are routed to /v1 like the rest
V2IsV1(resource) == <<"/", "v1", "/", resource>>
V2(resource) == <<"/", "v2", "/", resource>>

\* variant: the cursor goes out under the name the server returns it by
ListPairsCursorAsNextCursor ==
    <<<<"include_counts", "includeCounts">>, <<"cursor", "nextCursor">>,
      <<"page_size", "pageSize">>>>

\* the three query arguments every list method takes
ListDefaults ==
    ("include_counts" :> BoolLeaf("False")) @@ ("cursor" :> NoneLeaf)
    @@ ("page_size" :> IntLeaf("25"))
ListPairs ==
    <<<<"include_counts", "includeCounts">>, <<"cursor", "cursor">>,
      <<"page_size", "pageSize">>>>

\* the signatures of Hosts.list and AuditLogs.list
HostsListDefaults ==
    ListDefaults
    @@ Nones({"filter_endpoint_oidc_user_id", "filter_is_blocked",
              "filter_is_lighthouse", "filter_is_relay",
              "filter_metadata_last_seen_at", "filter_metadata_platform",
              "filter_metadata_update_available", "filter_role_id"})
AuditLogsListDefaults ==
    ListDefaults @@ Nones({"filter_target_id", "filter_target_type"})

\* the optional arguments of Hosts.update, of Routes.create and
\* Routes.update, and of Tags.create and Tags.update
HostsUpdateDefaults ==
    Nones({"name", "role_id", "static_addresses", "listen_port", "tags",
           "config_overrides"})
RoutesDefaults ==
    Nones({"description", "router_host_id", "routable_cidrs",
           "firewall_rules"})
TagsDefaults ==
    Nones({"description", "config_overrides", "before", "after",
           "route_subscriptions"})

-----------------------------------------------------------------------------
(* Resource facades: bodies and calls *)

\* the signature of Hosts.create and Hosts.create_with_enrollment
HostsCreateDefaults ==
    Nones({"role_id", "ip_address", "static_addresses", "tags",
           "config_overrides"})
    @@ ("listen_port" :> IntLeaf("0")) @@ ("is_lighthouse" :> BoolLeaf("False"))
    @@ ("is_relay" :> BoolLeaf("False"))

\* variant: the role is written into the body whether it was given or not
HostsCreateBodyAlwaysRole(a) ==
    Put(
        Put(Put(Put(Put(Put(NoEntries, "name", a["name"]),
                            "networkID", a["network_id"]),
                        "listenPort", a["listen_port"]),
                    "isLighthouse", a["is_lighthouse"]),
                "isRelay", a["is_relay"]),
        "roleID", a["role_id"])

\* the body Hosts.create builds
HostsCreateBody(a) ==
    AddTruthy(
        Put(Put(Put(Put(Put(NoEntries, "name", a["name"]),
                            "networkID", a["network_id"]),
                        "listenPort", a["listen_port"]),
                    "isLighthouse", a["is_lighthouse"]),
                "isRelay", a["is_relay"]),
        a,
        <<<<"role_id", "roleID">>, <<"ip_address", "ipAddress">>,
          <<"static_addresses", "staticAddresses">>, <<"tags", "tags">>,
          <<"config_overrides", "configOverrides">>>>)

\* the body Hosts.create_with_enrollment builds
HostsCreateWithEnrollmentBody(a) ==
    AddTruthy(
        Put(Put(Put(Put(Put(NoEntries, "name", a["name"]),
                            "networkID", a["network_id"]),
                        "listenPort", a["listen_port"]),
                    "isLighthouse", a["is_lighthouse"]),
                "isRelay", a["is_relay"]),
        a,
        <<<<"role_id", "roleID">>, <<"ip_address", "ipAddress">>,
          <<"static_addresses", "staticAddresses">>, <<"tags", "tags">>,
          <<"config_overrides", "configOverrides">>>>)

\* variant: the host is created first, then its code in a second request
HostsCreateWithEnrollmentCallsTwoSteps(a) ==
    <<ClientCall_("POST", V1("hosts"), NoneLeaf,
                  DictOf(HostsCreateWithEnrollmentBody(a))),
      ClientCall_("POST", V1("host-and-enrollment-code"), NoneLeaf,
                  DictOf(HostsCreateWithEnrollmentBody(a)))>>

\* the client calls of Hosts.create_with_enrollment
HostsCreateWithEnrollmentCalls(a) ==
    <<ClientCall_("POST", V1("host-and-enrollment-code"), NoneLeaf,
                  DictOf(HostsCreateWithEnrollmentBody(a)))>>

\* variant: close() leaves the pooled connections open
SessionCloseLeak(pool) == pool

\* requests.Session.close(): the adapters drop their pooled connections
SessionClose(pool) == FALSE

\* the session after an exchange: an answered request leaves its connection
\* in the pool, whether or not close() was called before
SessionRequest(pool, exchange) ==
    IF exchange.failed \/ exchange = NoExchange THEN pool ELSE TRUE

\* the value __exit__ returns (None): falsy, so the with statement re-raises
ExitResult == NoneLeaf

-----------------------------------------------------------------------------
(* State machine *)

\* a call one thread makes while others are in theirs: the operation, what
\* it hands to _request, and whether the facade unwraps the result
ConcurrentCall(name, id, method, endpoint, params, json, unwrap) ==
    [op |-> name, method |-> method, endpoint |-> endpoint,
     params |-> params, json |-> json, unwrap |-> unwrap,
     args |-> IF unwrap THEN Args(id, {}, NoEntries, endpoint, params, json)
              ELSE ClientArgs(<<>>, endpoint, params, json)]
NoCall == ConcurrentCall("", <<>>, "", <<>>, NoneLeaf, NoneLeaf, FALSE)

\* variant: the default body is written into the caller's json
CallerAfterJsonDefaulted(method, params, json) ==
    [params |-> params,
     json |-> IF method \in {"POST", "PUT", "PATCH"} /\ json = NoneLeaf
                  THEN EmptyDictLeaf ELSE json]

\* the caller's params and json once _request has built its request:
\* json = {} rebinds the local name, and the mappings are only read
CallerAfter(method, params, json) == [params |-> params, json |-> json]

Threads == 1..MaxThreads
Idle == [pc |-> "idle", call |-> NoCall,
         held |-> CallerAfter("", NoneLeaf, NoneLeaf), request |-> NoWire]

\* the client constructed with one of the given arguments
Constructed(ctors) ==
    /\ ctor \in ctors
    /\ api_key = ctor.api_key
    /\ headers = InitHeaders(ctor.api_key)
    /\ base_url = InitBaseUrl(ctor.base_url)
    /\ pooled = FALSE
    /\ closed = FALSE
    /\ afterClose = FALSE
    /\ withPc = "outside"
    /\ propagated = NoExc
    /\ op = ""
    /\ args = NoArgs
    /\ sent = <<>>
    /\ wire = NoWire
    /\ received = NoExchange
    /\ outcome = NoOutcome
    /\ threads = [t \in Threads |-> Idle]

Init == Constructed(CtorArgs)

\* a caller can start an operation unless an exception is leaving its block
Callable == withPc \in {"outside", "inside", "left"}

\* the session and the caller after an operation: an exception raised inside
\* a with-block is caught in the block or leaves it
Settle(exchange, result) ==
    /\ received' = exchange
    /\ outcome' = result
    /\ pooled' = SessionRequest(pooled, exchange)
    /\ afterClose' = closed
    /\ propagated' = NoExc
    /\ IF withPc = "inside" /\ result.kind = "raise"
           THEN withPc' \in {"inside", "unwinding"}
           ELSE withPc' = withPc
    /\ UNCHANGED <<ctor, api_key, headers, base_url, closed>>

\* a facade method: called with keywords kw that its signature does not have
\* it raises TypeError before its body runs; else it makes its calls on the
\* client and unwraps the result
Facade(id, kw, c, given, calls, exchange, unwrap) ==
    IF kw # {}
        THEN /\ exchange = NoExchange
             /\ args' = Args(id, c.set \cup kw,
                             given @@ [k \in kw |-> SampleValue(k)],
                             <<>>, NoneLeaf, NoneLeaf)
             /\ sent' = <<>>
             /\ wire' = NoWire
             /\ Settle(NoExchange, Raised(TypeError))
             /\ UNCHANGED threads
        ELSE /\ exchange # NoExchange
             /\ args' = Args(id, c.set, given, calls[Len(calls)].endpoint,
                             calls[Len(calls)].params, calls[Len(calls)].json)
             /\ sent' = Transmissions(
                            [i \in 1..Len(calls) |->
                                 Prepare(headers,
                                         BuildRequest(base_url, calls[i].method,
                                                      calls[i].endpoint,
                                                      calls[i].params,
                                                      calls[i].json),
                                         DefaultTimeout)],
                            exchange)
             /\ wire' = sent'[Len(sent')]
             /\ Settle(exchange,
                       IF unwrap THEN Data(_request(exchange))
                       ELSE _request(exchange))
             /\ UNCHANGED threads

get(endpoint, params, timeout, exchange) ==
    /\ Callable
    /\ op' = "get"
    /\ args' = ClientArgs(timeout, endpoint, params, NoneLeaf)
    /\ wire' = Prepare(headers,
                       BuildRequest(base_url, "GET", endpoint, params, NoneLeaf),
                       TimeoutOf(timeout))
    /\ sent' = Transmissions(<<wire'>>, exchange)
    /\ Settle(exchange, _request(exchange))
    /\ UNCHANGED threads

post(endpoint, json, params, timeout, exchange) ==
    /\ Callable
    /\ op' = "post"
    /\ args' = ClientArgs(timeout, endpoint, params, json)
    /\ wire' = Prepare(headers,
                       BuildRequest(base_url, "POST", endpoint, params, json),
                       TimeoutOf(timeout))
    /\ sent' = Transmissions(<<wire'>>, exchange)
    /\ Settle(exchange, _request(exchange))
    /\ UNCHANGED threads

put(endpoint, json, params, timeout, exchange) ==
    /\ Callable
    /\ op' = "put"
    /\ args' = ClientArgs(timeout, endpoint, params, json)
    /\ wire' = Prepare(headers,
                       BuildRequest(base_url, "PUT", endpoint, params, json),
                       TimeoutOf(timeout))
    /\ sent' = Transmissions(<<wire'>>, exchange)
    /\ Settle(exchange, _request(exchange))
    /\ UNCHANGED threads

delete(endpoint, params, timeout, exchange) ==
    /\ Callable
    /\ op' = "delete"
    /\ args' = ClientArgs(timeout, endpoint, params, NoneLeaf)
    /\ wire' = Prepare(headers,
                       BuildRequest(base_url, "DELETE", endpoint, params, NoneLeaf),
                       TimeoutOf(timeout))
    /\ sent' = Transmissions(<<wire'>>, exchange)
    /\ Settle(exchange, _request(exchange))
    /\ UNCHANGED threads

\* _request called with a method that has no wrapper
request_patch(endpoint, json, timeout, exchange) ==
    /\ Callable
    /\ op' = "_request"
    /\ args' = ClientArgs(timeout, endpoint, NoneLeaf, json)
    /\ wire' = Prepare(headers,
                       BuildRequest(base_url, "PATCH", endpoint, NoneLeaf, json),
                       TimeoutOf(timeout))
    /\ sent' = Transmissions(<<wire'>>, exchange)
    /\ Settle(exchange, _request(exchange))
    /\ UNCHANGED threads

hosts_create(kw, exchange) ==
    /\ Callable
    /\ op' = "hosts.create"
    /\ \E c \in Choices(DOMAIN HostsCreateDefaults) :
           LET a == Given({"name", "network_id"}, HostsCreateDefaults, c)
           IN  Facade(<<>>, kw, c, a,
                      <<ClientCall_("POST", V1("hosts"),
                           NoneLeaf,
                           DictOf(HostsCreateBody(a)))>>,
                      exchange, TRUE)

hosts_list(kw, exchange) ==
    /\ Callable
    /\ op' = "hosts.list"
    /\ \E c \in Choices(DOMAIN HostsListDefaults) :
           LET a == Given({}, HostsListDefaults, c)
           IN  Facade(<<>>, kw, c, a,
                      <<ClientCall_("GET", V1("hosts"),
                           _build_params(a, ListPairs
                               \o <<<<"filter_endpoint_oidc_user_id",
                                      "filter.endpointOIDCUserID">>,
                                    <<"filter_is_blocked", "filter.isBlocked">>,
                                    <<"filter_is_lighthouse",
                                      "filter.isLighthouse">>,
                                    <<"filter_is_relay", "filter.isRelay">>,
                                    <<"filter_metadata_last_seen_at",
                                      "filter.metadata.lastSeenAt">>,
                                    <<"filter_metadata_platform",
                                      "filter.metadata.platform">>,
                                    <<"filter_metadata_update_available",
                                      "filter.metadata.updateAvailable">>,
                                    <<"filter_role_id", "filter.roleID">>>>),
                           NoneLeaf)>>,
                      exchange, FALSE)

hosts_get(host_id, kw, exchange) ==
    /\ Callable
    /\ op' = "hosts.get"
    /\ Facade(host_id, kw, NoChoice, NoEntries,
              <<ClientCall_("GET", V1("hosts") \o <<"/">> \o host_id, NoneLeaf,
                            NoneLeaf)>>,
              exchange, TRUE)

hosts_delete(host_id, kw, exchange) ==
    /\ Callable
    /\ op' = "hosts.delete"
    /\ Facade(host_id, kw, NoChoice, NoEntries,
              <<ClientCall_("DELETE", V1("hosts") \o <<"/">> \o host_id, NoneLeaf,
                            NoneLeaf)>>,
              exchange, TRUE)

hosts_update(host_id, kw, exchange) ==
    /\ Callable
    /\ op' = "hosts.update"
    /\ \E c \in Choices(DOMAIN HostsUpdateDefaults) :
           LET a == Given({}, HostsUpdateDefaults, c)
           IN  Facade(host_id, kw, c, a,
                      <<ClientCall_("PUT", V2("hosts") \o <<"/">> \o host_id,
                           NoneLeaf,
                           DictOf(AddNotNone(NoEntries, a,
                               <<<<"name", "name">>, <<"role_id", "roleID">>,
                                 <<"static_addresses", "staticAddresses">>,
                                 <<"listen_port", "listenPort">>,
                                 <<"tags", "tags">>,
                                 <<"config_overrides", "configOverrides">>>>)))>>,
                      exchange, TRUE)

hosts_block(host_id, kw, exchange) ==
    /\ Callable
    /\ op' = "hosts.block"
    /\ Facade(host_id, kw, NoChoice, NoEntries,
              <<ClientCall_("POST",
                  V1("hosts") \o <<"/">> \o host_id \o <<"/", "block">>, NoneLeaf,
                            NoneLeaf)>>,
              exchange, TRUE)

hosts_unblock(host_id, kw, exchange) ==
    /\ Callable
    /\ op' = "hosts.unblock"
    /\ Facade(host_id, kw, NoChoice, NoEntries,
              <<ClientCall_("POST",
                  V1("hosts") \o <<"/">> \o host_id \o <<"/", "unblock">>, NoneLeaf,
                            NoneLeaf)>>,
              exchange, TRUE)

\* **kwargs of debug_command with the further keywords kw of the call
WithKeywords(kwargs, kw) ==
    IF kw = {} THEN kwargs
    ELSE IF kwargs = EmptyDictLeaf THEN DictLeaf("timeout=5")
    ELSE DictLeaf(kwargs.s \o ",timeout=5")

\* debug_command takes every keyword: what its signature does not name goes
\* into the command's args
hosts_debug_command(host_id, kw, exchange) ==
    /\ Callable
    /\ op' = "hosts.debug_command"
    /\ \E c \in Choices(DOMAIN ("kwargs" :> EmptyDictLeaf)) :
           LET g == Given({"command_type"}, ("kwargs" :> EmptyDictLeaf), c)
               a == [g EXCEPT !["kwargs"] = WithKeywords(@, kw)]
           IN  Facade(host_id, {}, [c EXCEPT !.set = @ \cup kw],
                      a @@ [k \in kw |-> SampleValue(k)],
                      <<ClientCall_("POST",
                  V1("hosts") \o <<"/">> \o host_id \o <<"/", "command">>,
                           NoneLeaf,
                           DictOf(AddTruthy(Put(NoEntries, "command",
                                                a["command_type"]),
                                            a, <<<<"kwargs", "args">>>>)))>>,
                      exchange, TRUE)

hosts_create_enrollment_code(host_id, kw, exchange) ==
    /\ Callable
    /\ op' = "hosts.create_enrollment_code"
    /\ Facade(host_id, kw, NoChoice, NoEntries,
              <<ClientCall_("POST", V1("hosts") \o <<"/">> \o host_id
     \o <<"/", "enrollment-code">>, NoneLeaf,
                            NoneLeaf)>>,
              exchange, TRUE)

hosts_create_with_enrollment(kw, exchange) ==
    /\ Callable
    /\ op' = "hosts.create_with_enrollment"
    /\ \E c \in Choices(DOMAIN HostsCreateDefaults) :
           LET a == Given({"name", "network_id"}, HostsCreateDefaults, c)
           IN  Facade(<<>>, kw, c, a,
                      HostsCreateWithEnrollmentCalls(a),
                      exchange, TRUE)

roles_create(kw, exchange) ==
    /\ Callable
    /\ op' = "roles.create"
    /\ \E c \in Choices(DOMAIN Nones({"description", "firewall_rules"})) :
           LET a == Given({"name"}, Nones({"description", "firewall_rules"}), c)
           IN  Facade(<<>>, kw, c, a,
                      <<ClientCall_("POST", V1("roles"),
                           NoneLeaf,
                           DictOf(AddNotNone(Put(NoEntries, "name", a["name"]), a,
                               <<<<"description", "description">>,
                                 <<"firewall_rules", "firewallRules">>>>)))>>,
                      exchange, TRUE)

roles_list(kw, exchange) ==
    /\ Callable
    /\ op' = "roles.list"
    /\ \E c \in Choices(DOMAIN ListDefaults) :
           LET a == Given({}, ListDefaults, c)
           IN  Facade(<<>>, kw, c, a,
                      <<ClientCall_("GET", V1("roles"),
                           _build_params(a, ListPairs),
                           NoneLeaf)>>,
                      exchange, FALSE)

roles_get(role_id, kw, exchange) ==
    /\ Callable
    /\ op' = "roles.get"
    /\ Facade(role_id, kw, NoChoice, NoEntries,
              <<ClientCall_("GET", V1("roles") \o <<"/">> \o role_id, NoneLeaf,
                            NoneLeaf)>>,
              exchange, TRUE)

roles_update(role_id, kw, exchange) ==
    /\ Callable
    /\ op' = "roles.update"
    /\ \E c \in Choices(DOMAIN Nones({"description", "firewall_rules"})) :
           LET a == Given({}, Nones({"description", "firewall_rules"}), c)
           IN  Facade(role_id, kw, c, a,
                      <<ClientCall_("PUT", V1("roles") \o <<"/">> \o role_id,
                           NoneLeaf,
                           DictOf(AddNotNone(NoEntries, a,
                               <<<<"description", "description">>,
                                 <<"firewall_rules", "firewallRules">>>>)))>>,
                      exchange, TRUE)

roles_delete(role_id, kw, exchange) ==
    /\ Callable
    /\ op' = "roles.delete"
    /\ Facade(role_id, kw, NoChoice, NoEntries,
              <<ClientCall_("DELETE", V1("roles") \o <<"/">> \o role_id, NoneLeaf,
                            NoneLeaf)>>,
              exchange, TRUE)

routes_create(kw, exchange) ==
    /\ Callable
    /\ op' = "routes.create"
    /\ \E c \in Choices(DOMAIN RoutesDefaults) :
           LET a == Given({"name"}, RoutesDefaults, c)
           IN  Facade(<<>>, kw, c, a,
                      <<ClientCall_("POST", V1("routes"),
                           NoneLeaf,
                           DictOf(AddNotNone(Put(NoEntries, "name", a["name"]), a,
                               <<<<"description", "description">>,
                                 <<"router_host_id", "routerHostID">>,
                                 <<"routable_cidrs", "routableCIDRs">>,
                                 <<"firewall_rules", "firewallRules">>>>)))>>,
                      exchange, TRUE)

routes_list(kw, exchange) ==
    /\ Callable
    /\ op' = "routes.list"
    /\ \E c \in Choices(DOMAIN ListDefaults) :
           LET a == Given({}, ListDefaults, c)
           IN  Facade(<<>>, kw, c, a,
                      <<ClientCall_("GET", V1("routes"),
                           _build_params(a, ListPairs),
                           NoneLeaf)>>,
                      exchange, FALSE)

routes_get(route_id, kw, exchange) ==
    /\ Callable
    /\ op' = "routes.get"
    /\ Facade(route_id, kw, NoChoice, NoEntries,
              <<ClientCall_("GET", V1("routes") \o <<"/">> \o route_id, NoneLeaf,
                            NoneLeaf)>>,
              exchange, TRUE)

routes_update(route_id, kw, exchange) ==
    /\ Callable
    /\ op' = "routes.update"
    /\ \E c \in Choices(DOMAIN RoutesDefaults) :
           LET a == Given({"name"}, RoutesDefaults, c)
           IN  Facade(route_id, kw, c, a,
                      <<ClientCall_("PUT", V1("routes") \o <<"/">> \o route_id,
                           NoneLeaf,
                           DictOf(AddNotNone(Put(NoEntries, "name", a["name"]), a,
                               <<<<"description", "description">>,
                                 <<"router_host_id", "routerHostID">>,
                                 <<"routable_cidrs", "routableCIDRs">>,
                                 <<"firewall_rules", "firewallRules">>>>)))>>,
                      exchange, TRUE)

routes_delete(route_id, kw, exchange) ==
    /\ Callable
    /\ op' = "routes.delete"
    /\ Facade(route_id, kw, NoChoice, NoEntries,
              <<ClientCall_("DELETE", V1("routes") \o <<"/">> \o route_id, NoneLeaf,
                            NoneLeaf)>>,
              exchange, TRUE)

tags_create(kw, exchange) ==
    /\ Callable
    /\ op' = "tags.create"
    /\ \E c \in Choices(DOMAIN TagsDefaults) :
           LET a == Given({"name"}, TagsDefaults, c)
           IN  Facade(<<>>, kw, c, a,
                      <<ClientCall_("POST", V1("tags"),
                           NoneLeaf,
                           DictOf(AddNotNone(Put(NoEntries, "name", a["name"]), a,
                               <<<<"description", "description">>,
                                 <<"config_overrides", "configOverrides">>,
                                 <<"before", "before">>, <<"after", "after">>,
                                 <<"route_subscriptions",
                                   "routeSubscriptions">>>>)))>>,
                      exchange, TRUE)

tags_list(kw, exchange) ==
    /\ Callable
    /\ op' = "tags.list"
    /\ \E c \in Choices(DOMAIN ListDefaults) :
           LET a == Given({}, ListDefaults, c)
           IN  Facade(<<>>, kw, c, a,
                      <<ClientCall_("GET", V2("tags"),
                           _build_params(a, ListPairs),
                           NoneLeaf)>>,
                      exchange, FALSE)

tags_get(tag, kw, exchange) ==
    /\ Callable
    /\ op' = "tags.get"
    /\ Facade(tag, kw, NoChoice, NoEntries,
              <<ClientCall_("GET", V1("tags") \o <<"/">> \o tag, NoneLeaf,
                            NoneLeaf)>>,
              exchange, TRUE)

tags_update(tag, kw, exchange) ==
    /\ Callable
    /\ op' = "tags.update"
    /\ \E c \in Choices(DOMAIN TagsDefaults) :
           LET a == Given({}, TagsDefaults, c)
           IN  Facade(tag, kw, c, a,
                      <<ClientCall_("PUT", V1("tags") \o <<"/">> \o tag,
                           NoneLeaf,
                           DictOf(AddNotNone(NoEntries, a,
                               <<<<"description", "description">>,
                                 <<"config_overrides", "configOverrides">>,
                                 <<"before", "before">>, <<"after", "after">>,
                                 <<"route_subscriptions",
                                   "routeSubscriptions">>>>)))>>,
                      exchange, TRUE)

tags_delete(tag, kw, exchange) ==
    /\ Callable
    /\ op' = "tags.delete"
    /\ Facade(tag, kw, NoChoice, NoEntries,
              <<ClientCall_("DELETE", V1("tags") \o <<"/">> \o tag, NoneLeaf,
                            NoneLeaf)>>,
              exchange, TRUE)

networks_create(kw, exchange) ==
    /\ Callable
    /\ op' = "networks.create"
    /\ \E c \in Choices(DOMAIN NoEntries) :
           LET a == Given({"name", "cidr"}, NoEntries, c)
           IN  Facade(<<>>, kw, c, a,
                      <<ClientCall_("POST", V1("networks"),
                           NoneLeaf,
                           DictOf(Put(Put(NoEntries, "name", a["name"]),
                                      "cidr", a["cidr"])))>>,
                      exchange, TRUE)

networks_list(kw, exchange) ==
    /\ Callable
    /\ op' = "networks.list"
    /\ \E c \in Choices(DOMAIN ListDefaults) :
           LET a == Given({}, ListDefaults, c)
           IN  Facade(<<>>, kw, c, a,
                      <<ClientCall_("GET", V1("networks"),
                           _build_params(a, ListPairs),
                           NoneLeaf)>>,
                      exchange, FALSE)

networks_get(network_id, kw, exchange) ==
    /\ Callable
    /\ op' = "networks.get"
    /\ Facade(network_id, kw, NoChoice, NoEntries,
              <<ClientCall_("GET", V1("networks") \o <<"/">> \o network_id, NoneLeaf,
                            NoneLeaf)>>,
              exchange, TRUE)

networks_update(network_id, kw, exchange) ==
    /\ Callable
    /\ op' = "networks.update"
    /\ \E c \in Choices(DOMAIN Nones({"name", "cidr"})) :
           LET a == Given({}, Nones({"name", "cidr"}), c)
           IN  Facade(network_id, kw, c, a,
                      <<ClientCall_("PUT", V1("networks") \o <<"/">> \o network_id,
                           NoneLeaf,
                           DictOf(AddNotNone(NoEntries, a,
                               <<<<"name", "name">>, <<"cidr", "cidr">>>>)))>>,
                      exchange, TRUE)

audit_logs_list(kw, exchange) ==
    /\ Callable
    /\ op' = "audit_logs.list"
    /\ \E c \in Choices(DOMAIN AuditLogsListDefaults) :
           LET a == Given({}, AuditLogsListDefaults, c)
           IN  Facade(<<>>, kw, c, a,
                      <<ClientCall_("GET", V1("audit-logs"),
                           _build_params(a, ListPairs
                               \o <<<<"filter_target_id", "filter.targetID">>,
                                    <<"filter_target_type",
                                      "filter.targetType">>>>),
                           NoneLeaf)>>,
                      exchange, FALSE)

downloads_list(kw, exchange) ==
    /\ Callable
    /\ op' = "downloads.list"
    /\ Facade(<<>>, kw, NoChoice, NoEntries,
              <<ClientCall_("GET", V1("downloads"), NoneLeaf,
                            NoneLeaf)>>,
              exchange, FALSE)

close ==
    /\ Callable
    /\ pooled' = SessionClose(pooled)
    /\ closed' = TRUE
    /\ afterClose' = FALSE
    /\ propagated' = NoExc
    /\ UNCHANGED <<ctor, api_key, headers, base_url, withPc,
                   op, args, sent, wire, received, outcome, threads>>

__enter__ ==
    /\ withPc \in {"outside", "left"}
    /\ withPc' = "inside"
    /\ afterClose' = FALSE
    /\ propagated' = NoExc
    /\ UNCHANGED <<ctor, api_key, headers, base_url, pooled, closed,
                   op, args, sent, wire, received, outcome, threads>>

\* leaving the block, normally or with the exception the last call raised
__exit__ ==
    /\ withPc \in {"inside", "unwinding"}
    /\ pooled' = SessionClose(pooled)
    /\ closed' = TRUE
    /\ afterClose' = FALSE
    /\ propagated' = IF withPc = "unwinding" /\ ~Truthy(ExitResult)
                         THEN outcome.exc ELSE NoExc
    /\ withPc' = "left"
    /\ UNCHANGED <<ctor, api_key, headers, base_url,
                   op, args, sent, wire, received, outcome, threads>>

\* a thread enters an operation: up to session.request the code reads the
\* client's base_url and the session's headers and builds its request
call(t, c) ==
    /\ Callable
    /\ threads[t].pc # "sent"
    /\ threads' = [threads EXCEPT ![t] =
                       [pc |-> "sent", call |-> c,
                        held |-> CallerAfter(c.method, c.params, c.json),
                        request |-> Prepare(headers,
                                            BuildRequest(base_url, c.method,
                                                         c.endpoint, c.params,
                                                         c.json),
                                            DefaultTimeout)]]
    /\ UNCHANGED <<ctor, api_key, headers, base_url, pooled, closed,
                   afterClose, withPc, propagated, op, args, sent, wire,
                   received, outcome>>

\* session.request comes back in a thread, and the thread's operation ends
respond(t, exchange) ==
    /\ threads[t].pc = "sent"
    /\ threads' = [threads EXCEPT ![t].pc = "done"]
    /\ op' = threads[t].call.op
    /\ args' = threads[t].call.args
    /\ wire' = threads[t].request
    /\ sent' = Transmissions(<<wire'>>, exchange)
    /\ Settle(exchange, IF threads[t].call.unwrap
                            THEN Data(_request(exchange))
                            ELSE _request(exchange))

\* the exchanges drawn while the session lifecycle is explored
SampleResponses ==
    {Response(200, ObjectDoc({"data"}, JsonNull,
                             JsonLeaf("object", <<>>, "host-1"))),
     Response(204, EmptyContent),
     Response(400, ObjectDoc({"errors"}, JsonLeaf("array", <<"e1">>, ""),
                             JsonNull)),
     Response(404, TextContent),
     Response(500, ArrayDoc)}
SampleExchanges == {Answered(r) : r \in SampleResponses} \cup {RequestException}

\* the client over its whole life: calls, close and with-blocks
Next ==
    \/ \E e \in Endpoints, p \in ParamArgs, x \in SampleExchanges : get(e, p, <<>>, x)
    \/ \E e \in Endpoints, j \in JsonArgs, x \in SampleExchanges :
           post(e, j, NoneLeaf, <<>>, x)
    \/ \E e \in Endpoints, j \in JsonArgs, x \in SampleExchanges :
           put(e, j, NoneLeaf, <<>>, x)
    \/ \E e \in Endpoints, x \in SampleExchanges : delete(e, NoneLeaf, <<>>, x)
    \/ \E j \in JsonArgs, x \in SampleExchanges :
           request_patch(<<"/", "v1", "/", "hosts">>, j, <<>>, x)
    \/ \E i \in Ids, x \in SampleExchanges : hosts_get(i, {}, x)
    \/ \E i \in Ids, x \in SampleExchanges : hosts_block(i, {}, x)
    \/ close
    \/ __enter__
    \/ __exit__

Spec == Init /\ [][Next]_vars

\* every operation of an open client against every response and failure
InitResponses == Constructed({[api_key |-> "dnkey-A", base_url |-> <<>>]})

NextResponses ==
    \/ \E x \in Exchanges : get(<<"/", "v1", "/", "hosts">>, NoneLeaf, <<>>, x)
    \/ \E j \in JsonArgs, x \in Exchanges :
           post(<<"/", "v1", "/", "roles">>, j, NoneLeaf, <<>>, x)
    \/ \E x \in Exchanges :
           put(<<"/", "v1", "/", "roles">>, DictLeaf("name=Admin"), NoneLeaf,
               <<>>, x)
    \/ \E x \in Exchanges : delete(<<"/", "v1", "/", "hosts">>, NoneLeaf, <<>>, x)
    \/ \E i \in Ids, x \in Exchanges : hosts_get(i, {}, x)

SpecResponses == InitResponses /\ [][NextResponses]_vars

\* get and post with base URLs that end, and paths that start, with any
\* number of slashes up to MaxSlashes
Slashes(n) == [i \in 1..n |-> "/"]
UrlBases ==
    {<<>>} \cup {<<"https://example.test">> \o Slashes(n) : n \in 0..MaxSlashes}
UrlEndpoints ==
    {Slashes(n) \o path :
         n \in 0..MaxSlashes,
         path \in {<<>>, <<"v1", "/", "hosts">>, <<"v1", "/", "hosts", "/">>}}
UrlExchanges ==
    {Answered(Response(200, ObjectDoc({}, JsonNull, JsonNull))),
     RequestException}

InitUrl == Constructed([api_key : {"dnkey-A"}, base_url : UrlBases])

NextUrl ==
    \/ \E e \in UrlEndpoints, x \in UrlExchanges : get(e, NoneLeaf, <<>>, x)
    \/ \E e \in UrlEndpoints, x \in UrlExchanges :
           post(e, NoneLeaf, NoneLeaf, <<>>, x)

SpecUrl == InitUrl /\ [][NextUrl]_vars

\* every resource operation of an open client, with the arguments a caller
\* may leave out, against a few responses and a failure
ResourceResponses ==
    {Response(200, ObjectDoc({"data", "metadata"}, JsonNull,
                             JsonLeaf("object", <<>>, "host-1"))),
     Response(200, ObjectDoc({}, JsonNull, JsonNull)),
     Response(204, ObjectDoc({"data", "metadata"}, JsonNull,
                             JsonLeaf("object", <<>>, "host-1"))),
     Response(404, TextContent)}
ResourceExchanges ==
    {Answered(r) : r \in ResourceResponses} \cup {RequestException}

InitResources == Constructed({[api_key |-> "dnkey-A", base_url |-> <<>>]})

NextResources ==
    \/ \E x \in ResourceExchanges : hosts_create({}, x)
    \/ \E x \in ResourceExchanges : hosts_list({}, x)
    \/ \E i \in Ids, x \in ResourceExchanges : hosts_get(i, {}, x)
    \/ \E i \in Ids, x \in ResourceExchanges : hosts_delete(i, {}, x)
    \/ \E i \in Ids, x \in ResourceExchanges : hosts_update(i, {}, x)
    \/ \E i \in Ids, x \in ResourceExchanges : hosts_block(i, {}, x)
    \/ \E i \in Ids, x \in ResourceExchanges : hosts_unblock(i, {}, x)
    \/ \E i \in Ids, x \in ResourceExchanges : hosts_debug_command(i, {}, x)
    \/ \E i \in Ids, x \in ResourceExchanges : hosts_create_enrollment_code(i, {}, x)
    \/ \E x \in ResourceExchanges : hosts_create_with_enrollment({}, x)
    \/ \E x \in ResourceExchanges : roles_create({}, x)
    \/ \E x \in ResourceExchanges : roles_list({}, x)
    \/ \E i \in Ids, x \in ResourceExchanges : roles_get(i, {}, x)
    \/ \E i \in Ids, x \in ResourceExchanges : roles_update(i, {}, x)
    \/ \E i \in Ids, x \in ResourceExchanges : roles_delete(i, {}, x)
    \/ \E x \in ResourceExchanges : routes_create({}, x)
    \/ \E x \in ResourceExchanges : routes_list({}, x)
    \/ \E i \in Ids, x \in ResourceExchanges : routes_get(i, {}, x)
    \/ \E i \in Ids, x \in ResourceExchanges : routes_update(i, {}, x)
    \/ \E i \in Ids, x \in ResourceExchanges : routes_delete(i, {}, x)
    \/ \E x \in ResourceExchanges : tags_create({}, x)
    \/ \E x \in ResourceExchanges : tags_list({}, x)
    \/ \E i \in TagNames, x \in ResourceExchanges : tags_get(i, {}, x)
    \/ \E i \in TagNames, x \in ResourceExchanges : tags_update(i, {}, x)
    \/ \E i \in TagNames, x \in ResourceExchanges : tags_delete(i, {}, x)
    \/ \E x \in ResourceExchanges : networks_create({}, x)
    \/ \E x \in ResourceExchanges : networks_list({}, x)
    \/ \E i \in Ids, x \in ResourceExchanges : networks_get(i, {}, x)
    \/ \E i \in Ids, x \in ResourceExchanges : networks_update(i, {}, x)
    \/ \E x \in ResourceExchanges : audit_logs_list({}, x)
    \/ \E x \in ResourceExchanges : downloads_list({}, x)

SpecResources == InitResources /\ [][NextResources]_vars

(* Calls with keyword arguments: every public operation, with and without a
   timeout, and the networks operations with the keywords of the example *)
Keywords == {{}, {"timeout"}}
NetworkKeywords == Keywords \cup {{"description", "lighthouses_as_relays"}}
KeywordExchanges ==
    {Answered(Response(200, ObjectDoc({"data", "metadata"}, JsonNull,
                                      JsonLeaf("object", <<>>, "host-1")))),
     Answered(Response(404, TextContent)),
     NoExchange}

InitKeywords == Constructed({[api_key |-> "dnkey-A", base_url |-> <<>>]})

NextKeywords ==
    \/ \E k \in Keywords, x \in KeywordExchanges : hosts_create(k, x)
    \/ \E k \in Keywords, x \in KeywordExchanges : hosts_list(k, x)
    \/ \E i \in Ids, k \in Keywords, x \in KeywordExchanges : hosts_get(i, k, x)
    \/ \E i \in Ids, k \in Keywords, x \in KeywordExchanges :
          hosts_delete(i, k, x)
    \/ \E i \in Ids, k \in Keywords, x \in KeywordExchanges :
          hosts_update(i, k, x)
    \/ \E i \in Ids, k \in Keywords, x \in KeywordExchanges :
          hosts_block(i, k, x)
    \/ \E i \in Ids, k \in Keywords, x \in KeywordExchanges :
          hosts_unblock(i, k, x)
    \/ \E i \in Ids, k \in Keywords, x \in KeywordExchanges :
          hosts_debug_command(i, k, x)
    \/ \E i \in Ids, k \in Keywords, x \in KeywordExchanges :
          hosts_create_enrollment_code(i, k, x)
    \/ \E k \in Keywords, x \in KeywordExchanges :
          hosts_create_with_enrollment(k, x)
    \/ \E k \in Keywords, x \in KeywordExchanges : roles_create(k, x)
    \/ \E k \in Keywords, x \in KeywordExchanges : roles_list(k, x)
    \/ \E i \in Ids, k \in Keywords, x \in KeywordExchanges : roles_get(i, k, x)
    \/ \E i \in Ids, k \in Keywords, x \in KeywordExchanges :
          roles_update(i, k, x)
    \/ \E i \in Ids, k \in Keywords, x \in KeywordExchanges :
          roles_delete(i, k, x)
    \/ \E k \in Keywords, x \in KeywordExchanges : routes_create(k, x)
    \/ \E k \in Keywords, x \in KeywordExchanges : routes_list(k, x)
    \/ \E i \in Ids, k \in Keywords, x \in KeywordExchanges :
          routes_get(i, k, x)
    \/ \E i \in Ids, k \in Keywords, x \in KeywordExchanges :
          routes_update(i, k, x)
    \/ \E i \in Ids, k \in Keywords, x \in KeywordExchanges :
          routes_delete(i, k, x)
    \/ \E k \in Keywords, x \in KeywordExchanges : tags_create(k, x)
    \/ \E k \in Keywords, x \in KeywordExchanges : tags_list(k, x)
    \/ \E i \in TagNames, k \in Keywords, x \in KeywordExchanges :
          tags_get(i, k, x)
    \/ \E i \in TagNames, k \in Keywords, x \in KeywordExchanges :
          tags_update(i, k, x)
    \/ \E i \in TagNames, k \in Keywords, x \in KeywordExchanges :
          tags_delete(i, k, x)
    \/ \E k \in NetworkKeywords, x \in KeywordExchanges : networks_create(k, x)
    \/ \E k \in Keywords, x \in KeywordExchanges : networks_list(k, x)
    \/ \E i \in Ids, k \in Keywords, x \in KeywordExchanges :
          networks_get(i, k, x)
    \/ \E i \in Ids, k \in NetworkKeywords, x \in KeywordExchanges :
          networks_update(i, k, x)
    \/ \E k \in Keywords, x \in KeywordExchanges : audit_logs_list(k, x)
    \/ \E k \in Keywords, x \in KeywordExchanges : downloads_list(k, x)
    \/ \E t \in TimeoutArgs, x \in KeywordExchanges \ {NoExchange} :
          get(<<"/", "v1", "/", "hosts">>, DictLeaf("pageSize=10"), t, x)
    \/ \E t \in TimeoutArgs, x \in KeywordExchanges \ {NoExchange} :
          post(<<"/", "v1", "/", "roles">>, DictLeaf("name=Admin"), NoneLeaf,
               t, x)
    \/ \E t \in TimeoutArgs, x \in KeywordExchanges \ {NoExchange} :
          put(<<"/", "v1", "/", "roles">>, DictLeaf("name=Admin"), NoneLeaf,
              t, x)
    \/ \E t \in TimeoutArgs, x \in KeywordExchanges \ {NoExchange} :
          delete(<<"/", "v1", "/", "hosts">>, NoneLeaf, t, x)

SpecKeywords == InitKeywords /\ [][NextKeywords]_vars

(* Concurrent calls on one client: each thread is in no call, in a call whose
   request is in flight, or back from one *)
ConcurrentCalls ==
    {ConcurrentCall("get", <<>>, "GET", <<"/", "v1", "/", "hosts">>,
                    DictLeaf("pageSize=10"), NoneLeaf, FALSE),
     ConcurrentCall("post", <<>>, "POST", <<"/", "v1", "/", "roles">>,
                    NoneLeaf, NoneLeaf, FALSE),
     ConcurrentCall("post", <<>>, "POST", <<"/", "v1", "/", "roles">>,
                    NoneLeaf, DictLeaf("name=Admin"), FALSE),
     ConcurrentCall("put", <<>>, "PUT", <<"/", "v1", "/", "roles">>,
                    DictLeaf("force=1"), NoneLeaf, FALSE),
     ConcurrentCall("delete", <<>>, "DELETE", <<"/", "v1", "/", "hosts">>,
                    NoneLeaf, NoneLeaf, FALSE),
     ConcurrentCall("hosts.get", <<"id-1">>, "GET",
                    V1("hosts") \o <<"/", "id-1">>, NoneLeaf, NoneLeaf, TRUE)}
ConcurrentExchanges ==
    {Answered(Response(200, ObjectDoc({"data"}, JsonNull,
                                      JsonLeaf("object", <<>>, "host-1")))),
     Answered(Response(404, TextContent)),
     RequestException}

InitConcurrent == Constructed({[api_key |-> "dnkey-A", base_url |-> <<>>]})

NextConcurrent ==
    \/ \E t \in Threads, c \in ConcurrentCalls : call(t, c)
    \/ \E t \in Threads, x \in ConcurrentExchanges : respond(t, x)

SpecConcurrent == InitConcurrent /\ [][NextConcurrent]_vars

-----------------------------------------------------------------------------
(* Properties *)

\* the last operation got an HTTP response
GotResponse == op # "" /\ ~received.failed
Status == received.response.status
Body == received.response.content
Is2xx == 200 <= Status /\ Status <= 299
\* the last operation was one of the client's own get/post/put/delete
ClientCall == op \in {"get", "post", "put", "delete"}

\* the error class the classification table gives a status
TableClass(status) ==
    CASE status = 400 -> "ValidationError"
      [] status = 401 -> "AuthenticationError"
      [] status = 403 -> "PermissionDeniedError"
      [] status = 404 -> "NotFoundError"
      [] 500 <= status /\ status <= 599 -> "ServerError"
      [] OTHER -> "DefinedClientError"

\* C1: for every response with status 400, 401, 403, 404 or 500..599 the
\* raised error is the class the table gives that status and its status_code
\* is the response status, whatever the body is.
C1_StatusAloneSelectsKind ==
    (GotResponse /\ TableClass(Status) # "DefinedClientError")
        => /\ outcome.kind = "raise"
           /\ outcome.exc.cls = TableClass(Status)
           /\ outcome.exc.status_code = Status

\* C2: every response whose status is outside 200..299 and is none of 400,
\* 401, 403, 404, 500..599 makes the request raise a plain DefinedClientError
\* with that status_code and the message "Unexpected API error (<status>)";
\* no value is returned for a non-2xx status.
C2_OtherStatusRaisesGeneric ==
    (GotResponse /\ ClientCall /\ ~Is2xx)
        => /\ outcome.kind = "raise"
           /\ TableClass(Status) = "DefinedClientError"
                  => /\ outcome.exc.cls = "DefinedClientError"
                     /\ outcome.exc.status_code = Status
                     /\ outcome.exc.message
                            = "Unexpected API error (" \o Str(Status) \o ")"

\* C3: whatever the status and the body, an operation that fails raises
\* DefinedClientError or one of its subclasses, never another exception type.
C3_OnlyClientErrorsEscape ==
    outcome.kind = "raise" => outcome.exc.cls \in ClientErrorClasses

\* C4: once close() has been called every later request fails; none is
\* sent and answered.
C4_ClosedIsTerminal ==
    afterClose => (outcome.kind = "raise" /\ received.failed)

\* C5: leaving a with-block, normally or with an exception, closes the
\* session in that very step, and an exception that left the block is the one
\* the caller receives; no request closes the session.
C5_ExitClosesAndPropagates ==
    [][/\ (withPc \in {"inside", "unwinding"} /\ withPc' = "left")
           => /\ closed' /\ ~pooled'
              /\ propagated' = IF withPc = "unwinding"
                                   THEN outcome.exc ELSE NoExc
       /\ (op' # op \/ wire' # wire \/ received' # received)
           => closed' = closed]_vars

C5_Witness ==
    /\ withPc = "left"
    /\ closed /\ ~pooled
    /\ received.response.status = 404
    /\ propagated.cls = "NotFoundError"

\* C6: for status 400 with a JSON object body holding an errors array, the
\* ValidationError's errors are that array: same entries, same order.
C6_ValidationErrorsEqualArray ==
    (/\ GotResponse /\ Status = 400
     /\ Body.form = "object" /\ "errors" \in Body.members
     /\ Body.errors.form = "array")
        => /\ outcome.kind = "raise"
           /\ outcome.exc.cls = "ValidationError"
           /\ outcome.exc.errors.py = "list"
           /\ outcome.exc.errors.items = Body.errors.items

C6_Witness ==
    /\ GotResponse /\ Status = 400
    /\ Body.form = "object" /\ Body.errors.form = "array"
    /\ Body.errors.items = <<"e2", "e1">>
    /\ outcome.exc.cls = "ValidationError"
    /\ outcome.exc.errors.items = <<"e2", "e1">>

\* the errors array a response body holds, the empty list when it has none
BodyErrors(content) ==
    IF /\ content.form = "object" /\ "errors" \in content.members
       /\ content.errors.form = "array"
        THEN ListLeaf(content.errors.items) ELSE EmptyList

\* C7: every client error raised from an HTTP response carries a message,
\* the response status as status_code, the raw response, and as errors the
\* errors array of the body (the empty list when the body has none).
C7_EveryErrorCarriesParsedErrors ==
    (/\ GotResponse /\ outcome.kind = "raise"
     /\ outcome.exc.cls \in ClientErrorClasses
     /\ "errors" \in Body.members => Body.errors.form = "array")
        => /\ outcome.exc.message # ""
           /\ outcome.exc.status_code = Status
           /\ outcome.exc.response = received.response
           /\ outcome.exc.errors = BodyErrors(Body)

\* C8: a 2xx response with status 204 or an empty body makes every
\* operation return the empty mapping; none raises.
C8_NoContentReturnsEmpty ==
    (GotResponse /\ Is2xx /\ (Status = 204 \/ Body.form = "empty"))
        => outcome = Returned(EmptyDict)

C8_Witness ==
    /\ GotResponse /\ op = "delete"
    /\ Status = 200 /\ Body.form = "empty"
    /\ outcome = Returned(EmptyDict)

\* C9 as stated: every 2xx response with a non-empty body returns the
\* parsed value when the body is JSON and raises a plain DefinedClientError
\* with the response status otherwise.
C9_Every2xxBodyIsParsed ==
    (GotResponse /\ ClientCall /\ Is2xx /\ Body.form # "empty")
        => IF Body.form # "text"
               THEN outcome = Returned(ResponseJson(received.response).value)
               ELSE /\ outcome.kind = "raise"
                    /\ outcome.exc.cls = "DefinedClientError"
                    /\ outcome.exc.status_code = Status

\* C9 amended: the same for every 2xx response other than 204.
C9_Non204BodyIsParsed ==
    (GotResponse /\ ClientCall /\ Is2xx /\ Status # 204 /\ Body.form # "empty")
        => IF Body.form # "text"
               THEN /\ outcome = Returned(ResponseJson(received.response).value)
                    /\ outcome.value.py
                           = CASE Body.form = "object" -> "dict"
                               [] Body.form = "array"  -> "list"
                               [] Body.form = "string" -> "str"
                               [] Body.form = "null"   -> "None"
               ELSE /\ outcome.kind = "raise"
                    /\ outcome.exc.cls = "DefinedClientError"
                    /\ outcome.exc.status_code = Status

C9_Witness ==
    /\ GotResponse /\ op = "post" /\ Status = 201
    /\ Body.form = "object" /\ Body.members = {"data"}
    /\ outcome.kind = "return"
    /\ outcome.value.keys = {"data"} /\ outcome.value.data.s = "host-1"

\* the error classes _handle_response raises for some HTTP response
HttpStatusErrorClasses ==
    {_handle_response(r).exc.cls :
         r \in {q \in Responses : _handle_response(q).kind = "raise"}}

\* C10: a failure at network level raises an error whose kind is raised
\* for no HTTP response.
C10_TransportKindIsDistinct ==
    (op # "" /\ received.failed)
        => /\ outcome.kind = "raise"
           /\ outcome.exc.cls \notin HttpStatusErrorClasses
-----------------------------------------------------------------------------
(* Properties of the resource facades *)

ResourceCall == op \notin {"", "get", "post", "put", "delete", "_request"}

\* the keys of a dict given by its entries
KeysOf(leaf) == IF leaf.py = "dict" THEN DOMAIN leaf.entries ELSE {}

\* the keys the last request carried in its body and in its query string
WireKeys == KeysOf(wire.json) \cup KeysOf(wire.params)
WireEntry(key) ==
    IF key \in KeysOf(wire.json) THEN wire.json.entries[key]
    ELSE wire.params.entries[key]

\* the documented wire name of each argument
WireKey(p) ==
    CASE p = "network_id" -> "networkID"
      [] p = "role_id" -> "roleID"
      [] p = "ip_address" -> "ipAddress"
      [] p = "static_addresses" -> "staticAddresses"
      [] p = "listen_port" -> "listenPort"
      [] p = "is_lighthouse" -> "isLighthouse"
      [] p = "is_relay" -> "isRelay"
      [] p = "config_overrides" -> "configOverrides"
      [] p = "firewall_rules" -> "firewallRules"
      [] p = "router_host_id" -> "routerHostID"
      [] p = "routable_cidrs" -> "routableCIDRs"
      [] p = "route_subscriptions" -> "routeSubscriptions"
      [] p = "command_type" -> "command"
      [] p = "kwargs" -> "args"
      [] p = "include_counts" -> "includeCounts"
      [] p = "page_size" -> "pageSize"
      [] p = "filter_endpoint_oidc_user_id" -> "filter.endpointOIDCUserID"
      [] p = "filter_is_blocked" -> "filter.isBlocked"
      [] p = "filter_is_lighthouse" -> "filter.isLighthouse"
      [] p = "filter_is_relay" -> "filter.isRelay"
      [] p = "filter_metadata_last_seen_at" -> "filter.metadata.lastSeenAt"
      [] p = "filter_metadata_platform" -> "filter.metadata.platform"
      [] p = "filter_metadata_update_available"
             -> "filter.metadata.updateAvailable"
      [] p = "filter_role_id" -> "filter.roleID"
      [] p = "filter_target_id" -> "filter.targetID"
      [] p = "filter_target_type" -> "filter.targetType"
      [] OTHER -> p

\* the arguments an operation requires
RequiredArgs ==
    CASE op \in {"hosts.create", "hosts.create_with_enrollment"}
             -> {"name", "network_id"}
      [] op = "hosts.debug_command" -> {"command_type"}
      [] op \in {"roles.create", "routes.create", "routes.update",
                 "tags.create"} -> {"name"}
      [] op = "networks.create" -> {"name", "cidr"}
      [] OTHER -> {}

\* the optional arguments the caller of the last operation left unset
Unset == (DOMAIN args.given \ RequiredArgs) \ args.supplied

\* C11 as stated: for every resource operation and every optional parameter
\* the caller leaves unset, the body or query string sent does not contain
\* the parameter's wire key.
C11_UnsetKeysAbsent ==
    ResourceCall => \A p \in Unset : WireKey(p) \notin WireKeys

\* C11, amended: an unset optional parameter whose default is None (or the
\* keyword arguments of debug_command, when none are given) has no wire key
\* in the request; an unset parameter with another default is sent with that
\* default.
C11_UnsetNoneKeysAbsent ==
    ResourceCall =>
        \A p \in Unset :
            IF args.given[p] = NoneLeaf \/ p = "kwargs"
                THEN WireKey(p) \notin WireKeys
                ELSE /\ WireKey(p) \in WireKeys
                     /\ WireEntry(WireKey(p)) = args.given[p]

C11_Witness ==
    /\ op = "hosts.list"
    /\ args.supplied = {"filter_is_relay"}
    /\ "cursor" \notin WireKeys
    /\ "filter.roleID" \notin WireKeys
    /\ "filter.isRelay" \in WireKeys
    /\ wire.params.entries["pageSize"] = IntLeaf("25")

\* C12: hosts.create called with only name, network_id and listen_port sends
\* a body whose keys are exactly name, networkID, listenPort, isLighthouse
\* and isRelay, with isLighthouse and isRelay false and the given values for
\* the others.
C12_MinimalHostCreateBody ==
    op = "hosts.create" /\ args.supplied = {"listen_port"} =>
        /\ KeysOf(wire.json) =
               {"name", "networkID", "listenPort", "isLighthouse", "isRelay"}
        /\ wire.json.entries["isLighthouse"] = BoolLeaf("False")
        /\ wire.json.entries["isRelay"] = BoolLeaf("False")
        /\ wire.json.entries["name"] = args.given["name"]
        /\ wire.json.entries["networkID"] = args.given["network_id"]
        /\ wire.json.entries["listenPort"] = args.given["listen_port"]
        /\ wire.params = NoneLeaf

C12_Witness ==
    /\ op = "hosts.create"
    /\ args.supplied = {"listen_port"}
    /\ args.given["listen_port"] = IntLeaf("0")
    /\ wire.method = "POST"
    /\ "roleID" \notin KeysOf(wire.json)

\* the operations that return a page of resources
ListOps ==
    {"hosts.list", "roles.list", "routes.list", "tags.list", "networks.list",
     "audit_logs.list", "downloads.list"}

\* the response body as parsed JSON, and the value under its data key
Parsed == ResponseJson(received.response).value
DataOrEmpty ==
    IF "data" \in Body.members THEN Lift(LoadLeaf(Body.data)) ELSE EmptyDict

\* C13 as stated: for every successful response that is a JSON object, a
\* single-resource operation returns the value under the data key, or an
\* empty mapping when the key is absent, and a list operation returns the
\* whole response.
C13_EnvelopeUnwrapping ==
    ResourceCall /\ GotResponse /\ Is2xx /\ Body.form = "object" =>
        outcome = Returned(IF op \in ListOps THEN Parsed ELSE DataOrEmpty)

\* C13, amended: the same for every successful response other than 204; a
\* 204 response makes every operation return an empty mapping.
C13_EnvelopeUnwrappingNon204 ==
    ResourceCall /\ GotResponse /\ Is2xx /\ Body.form = "object" =>
        outcome = Returned(IF Status = 204 THEN EmptyDict
                           ELSE IF op \in ListOps THEN Parsed
                           ELSE DataOrEmpty)

C13_Witness ==
    /\ op = "roles.create"
    /\ GotResponse
    /\ Status = 200
    /\ "data" \in Body.members
    /\ outcome = Returned(Lift(DictLeaf("host-1")))
    /\ outcome.value # Parsed

-----------------------------------------------------------------------------
(* Properties of the requests sent *)

\* C14: a POST, PUT or PATCH request whose caller supplies no body is sent
\* with an empty JSON object as its body, a GET or DELETE request without a
\* body is sent without one, and a body the caller supplies is sent unchanged.
C14_EmptyObjectForMissingBody ==
    op # "" =>
        wire.json =
            IF args.json # NoneLeaf THEN args.json
            ELSE IF wire.method \in {"POST", "PUT", "PATCH"} THEN EmptyDictLeaf
            ELSE NoneLeaf

C14_Witness ==
    /\ op = "hosts.block"
    /\ wire.method = "POST"
    /\ args.json = NoneLeaf
    /\ wire.json = EmptyDictLeaf

\* C15: whatever the number of slashes at the end of the base URL and at the
\* start of the path, the request URL is the base without its trailing
\* slashes, one slash, and the path without its leading slashes.
C15_UrlJoinedByOneSlash ==
    op # "" =>
        \E i \in 0..Len(base_url), j \in 0..Len(args.endpoint) :
            /\ \A k \in (i + 1)..Len(base_url) : base_url[k] = "/"
            /\ i > 0 => base_url[i] # "/"
            /\ \A k \in 1..j : args.endpoint[k] = "/"
            /\ j < Len(args.endpoint) => args.endpoint[j + 1] # "/"
            /\ wire.url = SubSeq(base_url, 1, i) \o <<"/">>
                          \o SubSeq(args.endpoint, j + 1, Len(args.endpoint))

C15_Witness ==
    /\ op = "get"
    /\ ctor.base_url = <<"https://example.test", "/", "/">>
    /\ args.endpoint = <<"/", "/", "v1", "/", "hosts">>
    /\ wire.url = <<"https://example.test", "/", "v1", "/", "hosts">>

\* the URL a path is requested at on the default server
AtDefaultServer(path) == <<"https://api.defined.net", "/">> \o path

\* a name percent-encoded into one path segment
RECURSIVE Quote(_)
Quote(name) ==
    IF name = <<>> THEN ""
    ELSE (CASE Head(name) = ":" -> "%3A"
            [] Head(name) = "/" -> "%2F"
            [] OTHER -> Head(name)) \o Quote(Tail(name))

\* C16: tags.get, tags.update and tags.delete percent-encode the tag name, so
\* that the request path is /v1/tags/ followed by one segment, the encoded
\* name.
C16_TagNamePercentEncoded ==
    op \in {"tags.get", "tags.update", "tags.delete"} =>
        wire.url = AtDefaultServer(<<"v1", "/", "tags", "/", Quote(args.id)>>)

\* the value a single-resource operation returns for what the transport core
\* made of the response
Unwrapped(result) ==
    IF result.kind # "return" THEN result
    ELSE Returned(IF "data" \in result.value.keys
                      THEN Lift(result.value.data) ELSE EmptyDict)

C18_OneRequestNoRetry ==
    ResourceCall =>
        /\ Len(sent) = 1
        /\ received.failed =>
               /\ outcome.kind = "raise"
               /\ outcome.exc.cls = "DefinedClientError"
               /\ outcome.exc.message = "Network error"
        /\ GotResponse /\ 400 <= Status /\ Status <= 599 =>
               /\ outcome.kind = "raise"
               /\ outcome.exc.cls \in ClientErrorClasses
               /\ outcome.exc.status_code = Status

C18_Witness ==
    /\ op = "hosts.delete"
    /\ received.failed
    /\ Len(sent) = 1
    /\ outcome.kind = "raise"

\* the version segment of the path of the last request
Version_ == wire.url[3]

\* two calls in a row of one operation with one identifier
SameOperationAgain == op # "" /\ op' = op /\ args'.id = args.id

\* C19: each resource operation uses one fixed method and path, whatever its
\* other arguments and the calls before it; hosts.update is PUT
\* /v2/hosts/{id}, tags.list is GET /v2/tags, every other operation uses /v1.
C19_FixedVersionedPaths ==
    /\ [](ResourceCall =>
             /\ Version_ = IF op \in {"hosts.update", "tags.list"}
                               THEN "v2" ELSE "v1"
             /\ op = "hosts.update" =>
                    /\ wire.method = "PUT"
                    /\ wire.url = AtDefaultServer(<<"v2", "/", "hosts", "/">>
                                                  \o args.id)
             /\ op = "tags.list" =>
                    /\ wire.method = "GET"
                    /\ wire.url = AtDefaultServer(<<"v2", "/", "tags">>))
    /\ [][SameOperationAgain =>
              wire'.method = wire.method /\ wire'.url = wire.url]_vars

C19_Witness ==
    /\ op = "hosts.update"
    /\ args.supplied = {"name"}
    /\ wire.method = "PUT"
    /\ Version_ = "v2"

\* the base URL the constructor was given, or the default one
GivenBase ==
    IF ctor.base_url = <<>> THEN <<"https://api.defined.net">> ELSE ctor.base_url

\* C20: every request, for every operation and after any earlier operations,
\* carries Authorization: Bearer <the api_key given at construction>,
\* Content-Type and Accept application/json, and goes to the base URL given
\* at construction, or to https://api.defined.net when none was given.
C20_HeadersAndBaseUrl ==
    op # "" =>
        /\ wire.headers["Authorization"] = "Bearer " \o ctor.api_key
        /\ wire.headers["Content-Type"] = "application/json"
        /\ wire.headers["Accept"] = "application/json"
        /\ \E n \in 1..Len(GivenBase) :
               /\ GivenBase[n] # "/"
               /\ \A k \in (n + 1)..Len(GivenBase) : GivenBase[k] = "/"
               /\ SubSeq(wire.url, 1, n + 1) = SubSeq(GivenBase, 1, n) \o <<"/">>

C20_Witness ==
    /\ op = "hosts.get"
    /\ closed
    /\ ctor = [api_key |-> "dnkey-B", base_url |-> <<"https://example.test", "/">>]
    /\ wire.headers["Authorization"] = "Bearer dnkey-B"
    /\ wire.url[1] = "https://example.test"

\* C21: every request of every public operation, the resource operations
\* included, is issued with the timeout its caller supplied, and with 30 when
\* the caller supplied none: a call that was given a timeout sends its
\* request all the same.
C21_TimeoutDefaultOrOverride ==
    op # "" =>
        /\ sent # <<>>
        /\ \A i \in 1..Len(sent) :
               sent[i].timeout = IF "timeout" \in args.supplied
                                     THEN args.given["timeout"]
                                     ELSE IntLeaf("30")


\* the filter arguments of the last list operation
FilterArgs == DOMAIN args.given \ {"include_counts", "cursor", "page_size"}

\* C22: hosts.list and audit_logs.list send each filter argument the caller
\* supplied under its exact dotted wire name with the value unchanged (a
\* supplied False included), send no filter key for a filter that was not
\* supplied, and no two arguments share a wire name.
C22_FiltersUnderDottedNames ==
    op \in {"hosts.list", "audit_logs.list"} /\ sent # <<>> =>
        /\ wire.json = NoneLeaf
        /\ \A p \in FilterArgs :
               IF p \in args.supplied
                   THEN /\ WireKey(p) \in KeysOf(wire.params)
                        /\ wire.params.entries[WireKey(p)] = args.given[p]
                   ELSE WireKey(p) \notin KeysOf(wire.params)
        /\ \A p, q \in DOMAIN args.given : p # q => WireKey(p) # WireKey(q)
        /\ KeysOf(wire.params) \subseteq {WireKey(p) : p \in DOMAIN args.given}

C22_Witness ==
    /\ op = "hosts.list"
    /\ args.supplied = {"filter_is_blocked"}
    /\ args.given["filter_is_blocked"] = BoolLeaf("False")
    /\ wire.params.entries["filter.isBlocked"] = BoolLeaf("False")
    /\ "filter.metadata.platform" \notin KeysOf(wire.params)

\* the cursor of the last list operation went out as the caller gave it
CursorSentAsGiven ==
    IF "cursor" \in args.supplied
        THEN /\ "cursor" \in KeysOf(wire.params)
             /\ wire.params.entries["cursor"] = args.given["cursor"]
        ELSE "cursor" \notin KeysOf(wire.params)

\* C23 as stated: every list operation sends a supplied cursor unchanged as
\* the cursor query parameter and no cursor when none is supplied, and what
\* it returns for a successful response contains the metadata the server
\* sent, the whole response unchanged.
C23_CursorAndMetadata ==
    op \in ListOps /\ sent # <<>> =>
        /\ CursorSentAsGiven
        /\ GotResponse /\ Is2xx /\ "metadata" \in Body.members =>
               /\ outcome.kind = "return"
               /\ "metadata" \in outcome.value.keys
               /\ outcome.value = Parsed

\* C23, amended: the same for every successful response other than 204; a
\* list operation answered with 204 returns an empty mapping without the
\* metadata.
C23_CursorAndMetadataNon204 ==
    op \in ListOps /\ sent # <<>> =>
        /\ CursorSentAsGiven
        /\ GotResponse /\ Is2xx /\ "metadata" \in Body.members =>
               /\ outcome.kind = "return"
               /\ IF Status = 204 THEN outcome.value = EmptyDict
                  ELSE /\ "metadata" \in outcome.value.keys
                       /\ outcome.value = Parsed

C23_Witness ==
    /\ op = "audit_logs.list"
    /\ args.supplied = {"cursor"}
    /\ args.given["cursor"] = StrLeaf("cursor")
    /\ wire.params.entries["cursor"] = StrLeaf("cursor")
    /\ GotResponse /\ Status = 200
    /\ "metadata" \in outcome.value.keys

C25_NetworkExampleArgumentsAccepted ==
    /\ op \in {"networks.create", "networks.update"}
    /\ {"description", "lighthouses_as_relays"} \subseteq args.supplied
    => /\ Len(sent) = 1
       /\ outcome.exc.cls # "TypeError"

\* C26: a response outside 200..299 whose body is empty or is not JSON makes
\* the operation raise the error its status alone selects, with the empty
\* list as errors; the failure to parse the body is not what is raised.
C26_UnparsableErrorBody ==
    GotResponse /\ ~Is2xx /\ Body.form \in {"empty", "text"} =>
        /\ outcome.kind = "raise"
        /\ outcome.exc.cls = TableClass(Status)
        /\ outcome.exc.status_code = Status
        /\ outcome.exc.errors = EmptyList
        /\ outcome.exc.message # "Invalid JSON response"

CreateAndUpdateOps ==
    {"hosts.create", "hosts.create_with_enrollment", "hosts.update",
     "roles.create", "roles.update", "routes.create", "routes.update",
     "tags.create", "tags.update", "networks.create", "networks.update"}

\* C27: every create and update operation, hosts.create and
\* hosts.create_with_enrollment included, writes an optional parameter that
\* the caller supplied with an empty or zero value (empty list, empty string,
\* 0) into the request body with that value.
C27_SuppliedEmptyValuesAreSent ==
    op \in CreateAndUpdateOps /\ sent # <<>> =>
        \A p \in args.supplied :
            ~Truthy(args.given[p]) =>
                /\ WireKey(p) \in KeysOf(wire.json)
                /\ wire.json.entries[WireKey(p)] = args.given[p]

\* C28: whatever calls were made on a client, by one thread or by several
\* at once, answered or failed, api_key, base_url and the session's default
\* headers are what the constructor set, every request in flight was built
\* from them, and the params and json mappings a caller passed are as the
\* caller passed them.
C28_ConfigurationAndArgumentsUntouched ==
    /\ api_key = ctor.api_key
    /\ base_url = InitBaseUrl(ctor.base_url)
    /\ headers = InitHeaders(ctor.api_key)
    /\ \A t \in Threads :
           threads[t].pc # "idle" =>
               /\ threads[t].held.params = threads[t].call.params
               /\ threads[t].held.json = threads[t].call.json
               /\ threads[t].request.headers = InitHeaders(ctor.api_key)

C28_Witness ==
    /\ threads[1].pc = "sent"
    /\ threads[1].call.op = "post"
    /\ threads[1].call.json = NoneLeaf
    /\ threads[1].request.json = EmptyDictLeaf
    /\ threads[2].pc = "done"
    /\ threads[2].call.op = "put"
    /\ op = "put"
    /\ outcome.kind = "raise"

=============================================================================
